---- MODULE Spec2Model ----
(***************************************************************************)
(* A model of the uC compiler's middle end: the CFG builder                *)
(* (uc/uc_code.py, CodeGenerator), the block model and linearizer          *)
(* (uc/uc_block.py) and the optimizer's driver (uc/uc_analysis.py,         *)
(* DataFlow.visit_Program).                                                *)
(*                                                                         *)
(* Representation.  A Python block object is an index into the arena       *)
(* `blocks` (0 stands for None).  An instruction tuple t is the record     *)
(* [op |-> t[0], args |-> the remaining operands as strings, params |->    *)
(* the (type, temp) pairs of a define line].  An AST node is a record      *)
(* whose field k is the node's class name.                                 *)
(***************************************************************************)
EXTENDS Integers, Sequences, FiniteSets, TLC

\* AST nodes in a program: global declarations, function definitions and
\* statements, all together.
MaxSize == 3

----------------------------------------------------------------------------
(* The AST, as the parser (uc/uc_parser.py) builds it and the type checker *)
(* (uc/uc_sema.py) accepts it.                                             *)

NoneNode == [k |-> "None"]

ConstInt == [k |-> "Constant", type |-> "int", value |-> "1"]
ConstStr == [k |-> "Constant", type |-> "string", value |-> "s"]
IdX == [k |-> "ID", name |-> "x", typename |-> "int"]
\* x < 1: the only conditions uc_sema.visit_If/visit_While/visit_Assert accept
\* are relational expressions.
CondX == [k |-> "BinaryOp", op |-> "<", lvalue |-> IdX, rvalue |-> ConstInt,
          coord |-> [line |-> 1, column |-> 1]]
AssignX == [k |-> "Assignment", op |-> "=", lvalue |-> IdX, rvalue |-> ConstInt]

Compound(items) == [k |-> "Compound", citens |-> items]

\* The statements without sub-statements.  inLoop: a break is accepted;
\* ftype: the type a return statement must have; callees: the calls in scope.
Leaves(inLoop, ftype, callees) ==
    {[k |-> "Print", expr |-> IdX],
     [k |-> "Print", expr |-> ConstStr],
     AssignX,
     [k |-> "Decl", name |-> "y", type |-> "int", init |-> ConstInt],
     [k |-> "Assert", expr |-> CondX]}
    \cup (IF inLoop THEN {[k |-> "Break"]} ELSE {})
    \cup (IF ftype = "void" THEN {[k |-> "Return", expr |-> NoneNode]}
                            ELSE {[k |-> "Return", expr |-> IdX]})
    \cup callees

\* Statement lists of exactly n nodes; a list declares y at most once (a
\* second declaration in the same scope is rejected by uc_sema).
RECURSIVE StmtLists(_, _, _, _)
RECURSIVE Stmts(_, _, _, _)
Stmts(n, inLoop, ftype, callees) ==
    IF n = 0 THEN {}
    ELSE (IF n = 1 THEN Leaves(inLoop, ftype, callees) ELSE {})
         \cup {[k |-> "If", cond |-> CondX, iftrue |-> Compound(b), iffalse |-> NoneNode] :
                 b \in StmtLists(n - 1, inLoop, ftype, callees)}
         \cup UNION {{[k |-> "If", cond |-> CondX, iftrue |-> Compound(b), iffalse |-> Compound(c)] :
                         b \in StmtLists(i, inLoop, ftype, callees),
                         c \in StmtLists(n - 1 - i, inLoop, ftype, callees)} : i \in 0..(n - 1)}
         \cup {[k |-> "While", cond |-> CondX, body |-> Compound(b)] :
                 b \in StmtLists(n - 1, TRUE, ftype, callees)}
         \cup {[k |-> "For", init |-> AssignX, cond |-> CondX, next |-> AssignX, body |-> Compound(b)] :
                 b \in StmtLists(n - 1, TRUE, ftype, callees)}
StmtLists(n, inLoop, ftype, callees) ==
    IF n = 0 THEN {<<>>}
    ELSE UNION {{<<s>> \o r : s \in Stmts(i, inLoop, ftype, callees),
                              r \in {q \in StmtLists(n - i, inLoop, ftype, callees) :
                                        \A j \in 1..Len(q) : q[j].k # "Decl"}}
                \cup {<<s>> \o r : s \in {q \in Stmts(i, inLoop, ftype, callees) : q.k # "Decl"},
                                    r \in StmtLists(n - i, inLoop, ftype, callees)} : i \in 1..n}

\* A call of function c from a scope where x is a parameter (the callee takes
\* x) or a global (the callee takes nothing).
Call(c, byParam) ==
    [k |-> "FuncCall", name |-> c.name, type |-> c.type,
     args |-> IF byParam THEN IdX ELSE NoneNode]

\* The sequences of nf function definitions holding at most n statement nodes.
\* Each function may call itself and the functions defined before it; the
\* last one is main.  With no global x, x is every function's parameter.
FuncName(left) == IF left = 1 THEN "main" ELSE "f" \o ToString(left - 1)

RECURSIVE FuncSeqs(_, _, _, _)
FuncSeqs(nf, n, byParam, callees) ==
    IF nf = 0 THEN {<<>>}
    ELSE UNION {UNION {
           LET me == [name |-> FuncName(nf), type |-> ty]
               calls == {Call(c, byParam) : c \in callees \cup {me}}
           IN  {<<[k |-> "FuncDef", name |-> me.name, type |-> ty,
                   params |-> IF byParam THEN <<[name |-> "x", type |-> "int"]>> ELSE <<>>,
                   body |-> Compound(b)]>> \o r :
                  b \in StmtLists(i, FALSE, ty, calls),
                  r \in FuncSeqs(nf - 1, n - i, byParam, callees \cup {me})}
           : ty \in {"void", "int"}} : i \in 0..n}

GlobalX == [k |-> "GlobalDecl", name |-> "x", type |-> "int", init |-> ConstInt]
GlobalY == [k |-> "GlobalDecl", name |-> "y", type |-> "int", init |-> NoneNode]

\* Program.gdecls: an optional global x, the functions, an optional global y.
Programs ==
    UNION {UNION {UNION {
        {(IF hasX THEN <<GlobalX>> ELSE <<>>) \o fs \o (IF hasY THEN <<GlobalY>> ELSE <<>>) :
            fs \in FuncSeqs(nf, MaxSize - nf - (IF hasX THEN 1 ELSE 0) - (IF hasY THEN 1 ELSE 0),
                            ~hasX, {})}
        : nf \in 0..(MaxSize - (IF hasX THEN 1 ELSE 0) - (IF hasY THEN 1 ELSE 0))}
        : hasX \in BOOLEAN} : hasY \in BOOLEAN}

----------------------------------------------------------------------------
(* Blocks (uc/uc_block.py) and the builder's state.  The operators below   *)
(* thread a record S holding the heap of blocks and the CodeGenerator's    *)
(* fields; S.loc is the gen_location the last visited expression node got. *)

None == 0

Instr(op, args) == [op |-> op, args |-> args, params |-> <<>>]

\* Block.__init__, BasicBlock.__init__ (branch), ConditionBlock.__init__
\* (taken, fall_through).
Block(kind, label) ==
    [kind |-> kind, label |-> label, instructions |-> <<>>, predecessors |-> <<>>,
     next_block |-> None, branch |-> None, taken |-> None, fall_through |-> None]

\* The constructor call: the new object is the last of the heap.
NewBlock(S, kind, label) == [S EXCEPT !.blocks = Append(@, Block(kind, label))]

\* Block.append
BlockAppend(S, b, instr) == [S EXCEPT !.blocks[b].instructions = Append(@, instr)]

\* self.current_block.append(instr)
Emit(S, instr) == BlockAppend(S, S.cur, instr)

\* Set, but a ConditionBlock's next_block is never linked.
SetUnlinked(S, b, field, v) ==
    IF field = "next_block" /\ S.blocks[b].kind = "ConditionBlock" THEN S
    ELSE [S EXCEPT !.blocks[b][field] = v]

\* b.<field> = v, for the links next_block, branch, taken and fall_through.
Set(S, b, field, v) == [S EXCEPT !.blocks[b][field] = v]

\* b.predecessors.append(p)
AddPred(S, b, p) == [S EXCEPT !.blocks[b].predecessors = Append(@, p)]

\* CodeGenerator.new_temp; the name returned is left in S.loc.
NewTemp(S) ==
    LET v == IF S.fname \in DOMAIN S.versions THEN S.versions[S.fname] ELSE 1
    IN  [S EXCEPT !.versions = (S.fname :> (v + 1)) @@ @, !.loc = "%" \o ToString(v)]

\* CodeGenerator.new_text; the name returned is left in S.loc.
NewText(S, typename) ==
    [S EXCEPT !.versions["_glob_"] = @ + 1,
              !.loc = "@." \o typename \o "." \o ToString(S.versions["_glob_"])]

\* text = self.new_text('str'); self.text.append(('global_string', text, value))
TextAppend(S, value) ==
    LET t == NewText(S, "str")
    IN  [t EXCEPT !.text = Append(@, Instr("global_string", <<t.loc, value>>))]

(* The statements the visit_* methods are made of.  A method body is the   *)
(* sequence of its statements; Do runs them one after the other.  loc      *)
(* stands for the gen_location of the node visited last, or for the name   *)
(* new_temp/new_text returned last.                                        *)

\* self.current_block.append(instr)
append(instr) == [o |-> "append", instr |-> instr]
\* self.current_block.append((op, *before, loc, *after))
append_loc(op, before, after) == [o |-> "append_loc", op |-> op, before |-> before, after |-> after]
\* b.append(instr), b a block held in a local variable
block_append(b, instr) == [o |-> "block_append", b |-> b, instr |-> instr]
\* self.visit(node)
visit(node) == [o |-> "visit", node |-> node]
\* b.<field> = v
assign(b, field, v) == [o |-> "assign", b |-> b, field |-> field, v |-> v]
\* self.current_block.<field> = v
assign_cur(field, v) == [o |-> "assign_cur", field |-> field, v |-> v]
\* b.predecessors.append(p)
pred(b, p) == [o |-> "pred", b |-> b, p |-> p]
\* b.predecessors.append(self.current_block)
pred_cur(b) == [o |-> "pred_cur", b |-> b]
\* self.current_block = b, the assignment of None left out.
current_block_kept(b) ==
    IF b = None THEN [o |-> "gen_location", name |-> ""] ELSE [o |-> "current_block", b |-> b]

\* self.current_block = b
current_block(b) == [o |-> "current_block", b |-> b]
\* self.current_break = label
current_break(label) == [o |-> "current_break", label |-> label]
\* self.return_key = name
return_key(name) == [o |-> "return_key", name |-> name]
\* node.gen_location = name
gen_location(name) == [o |-> "gen_location", name |-> name]
\* name = self.new_temp()
new_temp == [o |-> "new_temp"]
\* text = self.new_text('str'); self.text.append(('global_string', text, value))
text_append(value) == [o |-> "text_append", value |-> value]

RECURSIVE Visit(_, _)
RECURSIVE Do(_, _)

\* One statement.
Step(S, st) ==
    CASE st.o = "append" -> Emit(S, st.instr)
      [] st.o = "append_loc" -> Emit(S, Instr(st.op, st.before \o <<S.loc>> \o st.after))
      [] st.o = "block_append" -> BlockAppend(S, st.b, st.instr)
      [] st.o = "visit" -> Visit(S, st.node)
      [] st.o = "assign" -> Set(S, st.b, st.field, st.v)
      [] st.o = "assign_cur" -> Set(S, S.cur, st.field, st.v)
      [] st.o = "pred" -> AddPred(S, st.b, st.p)
      [] st.o = "pred_cur" -> AddPred(S, st.b, S.cur)
      [] st.o = "current_block" -> [S EXCEPT !.cur = st.b]
      [] st.o = "current_break" -> [S EXCEPT !.current_break = st.label]
      [] st.o = "return_key" -> [S EXCEPT !.return_key = st.name]
      [] st.o = "gen_location" -> [S EXCEPT !.loc = st.name]
      [] st.o = "new_temp" -> NewTemp(S)
      [] st.o = "text_append" -> TextAppend(S, st.value)

\* The statements of a method body, in order; an exception ends them.
Do(S, sts) ==
    IF Len(sts) = 0 \/ S.status # "ok" THEN S ELSE Do(Step(S, Head(sts)), Tail(sts))

\* CodeGenerator.visit_Constant
VisitConstant(S, node) ==
    IF node.type = "string"
    THEN TextAppend(S, node.value)
    ELSE Do(S, <<new_temp, append_loc("literal_" \o node.type, <<node.value>>, <<>>)>>)

\* CodeGenerator.visit_ID
VisitID(S, node) ==
    LET name == IF \E i \in 1..Len(S.text) : S.text[i].args[1] = "@" \o node.name
                THEN "@" \o node.name ELSE "%" \o node.name
    IN  Do(S, <<new_temp, append_loc("load_" \o node.typename, <<name>>, <<>>)>>)

OpStr(op) ==
    CASE op = "==" -> "eq" [] op = "!=" -> "ne" [] op = "<" -> "lt" [] op = "<=" -> "le"
      [] op = ">" -> "gt" [] op = ">=" -> "ge" [] op = "+" -> "add" [] op = "-" -> "sub"
      [] op = "*" -> "mul" [] op = "/" -> "div" [] op = "%" -> "mod"
      [] op = "&&" -> "and" [] op = "||" -> "or" [] op = "!" -> "not"

\* The type suffix visit_BinaryOp takes from its left operand.
LvalueType(node) == IF node.k = "FuncCall" THEN node.type ELSE node.typename

\* CodeGenerator.visit_BinaryOp
VisitBinaryOp(S, node) ==
    LET r == Visit(S, node.rvalue)
        l == Visit(r, node.lvalue)
    IN  Do(l, <<new_temp,
                append_loc(OpStr(node.op) \o "_" \o LvalueType(node.lvalue),
                           <<l.loc, r.loc>>, <<>>)>>)

\* CodeGenerator.visit_FuncCall
VisitFuncCall(S, node) ==
    LET aux == NewTemp(S).loc
    IN  Do(S, <<new_temp>>
              \o (IF node.args.k = "None" THEN <<>>
                  ELSE IF node.args.k # "Constant"
                       THEN <<visit(node.args),
                              append_loc("param_" \o node.args.typename, <<>>, <<>>)>>
                       ELSE <<visit(node.args)>>)
              \o <<append(Instr("call_" \o node.type, <<"@" \o node.name, aux>>)),
                   gen_location(aux)>>)

\* CodeGenerator.visit_Assignment (op "=": no compound operator)
VisitAssignment(S, node) ==
    Do(S, <<visit(node.rvalue),
            append_loc("store_" \o node.lvalue.typename, <<>>, <<"%" \o node.lvalue.name>>)>>)

\* CodeGenerator.visit_Decl inside a function: a variable (VarDecl).
VisitLocalDecl(S, node) ==
    Do(S, <<append(Instr("alloc_" \o node.type, <<"%" \o node.name>>))>>
          \o (IF node.init.k = "None" THEN <<>>
              ELSE <<visit(node.init),
                     append_loc("store_" \o node.type, <<>>, <<"%" \o node.name>>)>>))

\* CodeGenerator.visit_Print: aux_getType and aux_Append
PrintType(e) ==
    IF e.k = "ID" THEN e.typename ELSE e.type

VisitPrint(S, node) ==
    IF node.expr.k = "None" THEN Emit(S, Instr("print_void", <<>>))
    ELSE Do(S, <<visit(node.expr),
                 append_loc("print_" \o PrintType(node.expr), <<>>, <<>>)>>)

\* CodeGenerator.visit_Return
VisitReturn(S, node) ==
    IF node.expr.k = "None" THEN Emit(S, Instr("jump", <<"%exit">>))
    ELSE Do(S, <<visit(node.expr),
                 append_loc("store_" \o S.ftype, <<>>, <<S.return_key>>)>>)

\* CodeGenerator.visit_Break
VisitBreak(S, node) == Emit(S, Instr("jump", <<"%" \o S.current_break>>))

\* CodeGenerator.visit_Compound
VisitItems(S, items) == Do(S, [i \in 1..Len(items) |-> visit(items[i])])

\* CodeGenerator.visit_If.  The test `if (node.iftrue)` holds for every
\* statement node.
VisitIf(S, node) ==
    LET n == Len(S.blocks)
        block_if == n + 1
        block_then == n + 2
        block_else == n + 3
        block_end == n + 4
        hasElse == node.iffalse.k # "None"
    IN  Do(NewBlock(NewBlock(NewBlock(NewBlock(S, "ConditionBlock", "%if"),
               "BasicBlock", "%if_then"), "BasicBlock", "%if_else"), "BasicBlock", "%if_end"),
           <<assign_cur("branch", block_if),
             append(Instr("jump", <<"%if">>)),
             assign_cur("next_block", block_if),
             current_block(block_if),
             append(Instr("if:", <<>>)),
             visit(node.cond),
             append_loc("cbranch", <<>>,
                        <<"%if_then", IF hasElse THEN "%if_else" ELSE "%if_end">>),
             assign(block_if, "taken", block_then),
             pred(block_then, block_if),
             assign_cur("next_block", block_then),
             current_block(block_then),
             append(Instr("if_then:", <<>>)),
             visit(node.iftrue),
             append(Instr("jump", <<"%if_end">>)),
             assign(block_then, "branch", block_end),
             pred(block_end, block_then)>>
           \o (IF hasElse
               THEN <<assign(block_if, "fall_through", block_else),
                      pred(block_else, block_if),
                      assign_cur("next_block", block_else),
                      current_block(block_else),
                      append(Instr("if_else:", <<>>)),
                      visit(node.iffalse),
                      append(Instr("jump", <<"%if_end">>)),
                      assign(block_else, "branch", block_end),
                      pred(block_end, block_else)>>
               ELSE <<>>)
           \o <<assign_cur("next_block", block_end),
                current_block(block_end),
                append(Instr("if_end:", <<>>))>>)

\* CodeGenerator.visit_For
VisitFor(S, node) ==
    LET n == Len(S.blocks)
        block_test == n + 1
        block_body == n + 2
        block_increment == n + 3
        block_final_increment == n + 4
        block_end == n + 5
    IN  Do(NewBlock(NewBlock(NewBlock(NewBlock(NewBlock(S,
               "ConditionBlock", "%for_test"), "BasicBlock", "%for_body"),
               "BasicBlock", "%for_increment"), "BasicBlock", "%for_final_increment"),
               "BasicBlock", "%for_end"),
           <<visit(node.init),
             current_break("for_end"),
             append(Instr("jump", <<"%for_test">>)),
             assign_cur("branch", block_test),
             pred_cur(block_test),
             pred(block_test, block_increment),
             assign_cur("next_block", block_test),
             current_block(block_test),
             append(Instr("for_test:", <<>>)),
             visit(node.cond),
             append_loc("cbranch", <<>>, <<"%for_body", "%for_final_increment">>),
             assign(block_test, "taken", block_body),
             assign(block_test, "fall_through", block_final_increment),
             pred(block_body, block_test),
             assign_cur("next_block", block_body),
             current_block(block_body),
             append(Instr("for_body:", <<>>)),
             visit(node.body),
             append(Instr("jump", <<"%for_increment">>)),
             assign_cur("branch", block_increment),
             assign_cur("next_block", block_increment),
             current_block(block_increment),
             append(Instr("for_increment:", <<>>)),
             visit(node.next),
             append(Instr("jump", <<"%for_test">>)),
             assign_cur("next_block", block_final_increment),
             current_block(block_final_increment),
             append(Instr("for_final_increment:", <<>>)),
             visit(node.next),
             append(Instr("jump", <<"%for_end">>)),
             pred(block_end, block_final_increment),
             assign_cur("next_block", block_end),
             current_block(block_end),
             append(Instr("for_end:", <<>>))>>)

\* CodeGenerator.visit_While
VisitWhile(S, node) ==
    LET n == Len(S.blocks)
        block_test == n + 1
        block_body == n + 2
        block_end == n + 3
    IN  Do(NewBlock(NewBlock(NewBlock(S, "ConditionBlock", "%while_test"),
               "BasicBlock", "%while_body"), "BasicBlock", "%while_end"),
           <<pred_cur(block_test),
             pred(block_test, block_body),
             assign(block_test, "taken", block_body),
             assign(block_test, "fall_through", block_end),
             assign_cur("branch", block_test),
             append(Instr("jump", <<"%while_test">>)),
             assign_cur("next_block", block_test),
             current_break("while_end"),
             current_block(block_test),
             append(Instr("while_test:", <<>>)),
             visit(node.cond),
             append_loc("cbranch", <<>>, <<"%while_test", "%while_end">>),
             pred(block_body, block_test),
             assign(block_body, "branch", block_test),
             assign_cur("next_block", block_body),
             current_block(block_body),
             append(Instr("while_test:", <<>>)),
             visit(node.body),
             append(Instr("jump", <<"%while_test">>)),
             assign_cur("next_block", block_end),
             current_block(block_end),
             append(Instr("while_test:", <<>>))>>)

\* CodeGenerator.visit_Assert
VisitAssert(S, node) ==
    LET n == Len(S.blocks)
        condition_block == n + 1
        block_true == n + 2
        block_false == n + 3
    IN  Do(NewBlock(NewBlock(NewBlock(S, "ConditionBlock", "%assert"),
               "BasicBlock", "%assert_true"), "BasicBlock", "%assert_false"),
           <<assign_cur("branch", condition_block),
             pred_cur(condition_block),
             append(Instr("jump", <<"%assert">>)),
             assign_cur("next_block", condition_block),
             current_block(condition_block),
             append(Instr("assert:", <<>>)),
             visit(node.expr),
             append_loc("cbranch", <<>>, <<"%assert_true", "%assert_false">>),
             assign(condition_block, "fall_through", block_false),
             pred(block_false, condition_block),
             assign(condition_block, "next_block", block_false),
             current_block(block_false),
             append(Instr("assert_false:", <<>>)),
             text_append("assertion_fail on " \o ToString(node.expr.coord.line)
                             \o ":" \o ToString(node.expr.coord.column)),
             append_loc("print_string", <<>>, <<>>),
             append(Instr("jump", <<"%exit">>)),
             assign(condition_block, "taken", block_true),
             pred(block_true, condition_block),
             assign_cur("next_block", block_true),
             current_block(block_true),
             append(Instr("assert_true:", <<>>))>>)

\* NodeVisitor.visit: the dispatch on the node's class.
Visit(S, node) ==
    CASE node.k = "Constant" -> VisitConstant(S, node)
      [] node.k = "ID" -> VisitID(S, node)
      [] node.k = "BinaryOp" -> VisitBinaryOp(S, node)
      [] node.k = "FuncCall" -> VisitFuncCall(S, node)
      [] node.k = "Assignment" -> VisitAssignment(S, node)
      [] node.k = "Decl" -> VisitLocalDecl(S, node)
      [] node.k = "Print" -> VisitPrint(S, node)
      [] node.k = "Return" -> VisitReturn(S, node)
      [] node.k = "Break" -> VisitBreak(S, node)
      [] node.k = "Compound" -> VisitItems(S, node.citens)
      [] node.k = "If" -> VisitIf(S, node)
      [] node.k = "For" -> VisitFor(S, node)
      [] node.k = "While" -> VisitWhile(S, node)
      [] node.k = "Assert" -> VisitAssert(S, node)

\* CodeGenerator.visit_FuncDef, the loop over the parameters: one temporary
\* each, collected in aux_param_list and kept as the parameter's gen_location.
RECURSIVE ParamTemps(_, _)
ParamTemps(S, params) ==
    IF params = <<>> THEN [s |-> S, list |-> <<>>]
    ELSE LET r == ParamTemps(NewTemp(S), Tail(params))
         IN  [s |-> r.s, list |-> <<<<Head(params).type, NewTemp(S).loc>>>> \o r.list]

\* CodeGenerator.visit_ParamList: visit_Decl allocates the parameter, then the
\* temporary it arrived in is stored into it.
RECURSIVE VisitParamList(_, _)
VisitParamList(params, temps) ==
    IF params = <<>> THEN <<>>
    ELSE LET p == Head(params)
         IN  <<visit([k |-> "Decl", name |-> p.name, type |-> p.type, init |-> NoneNode]),
               append(Instr("store_" \o p.type, <<Head(temps)[2], "%" \o p.name>>))>>
             \o VisitParamList(Tail(params), Tail(temps))

\* CodeGenerator.visit_FuncDef.  The function's first block is the new block
\* Len(S.blocks) + 1 (node.cfg), its exit block the one after it.
VisitFuncDef(S, node) ==
    LET aux_return == NewTemp(S).loc
        n == Len(S.blocks)
        block_function == n + 1
        block_end == n + 2
        aux_param_list ==
            ParamTemps(NewBlock(NewBlock(
                [NewTemp(S) EXCEPT !.fname = node.name, !.ftype = node.type],
                "BasicBlock", "%" \o node.name), "BasicBlock", "%exit"), node.params)
        target_return == NewTemp(aux_param_list.s).loc
        void == node.type = "void"
    IN  Do(aux_param_list.s,
           <<block_append(block_function,
                          [op |-> "define_" \o node.type, args |-> <<"@" \o node.name>>,
                           params |-> aux_param_list.list]),
             block_append(block_function, Instr("entry:", <<>>))>>
           \o (IF void THEN <<>>
               ELSE <<new_temp,
                      block_append(block_function,
                                   Instr("alloc_" \o node.type, <<target_return>>)),
                      return_key(target_return)>>)
           \o (IF S.cur = None THEN <<>>
               ELSE <<pred_cur(block_function), assign_cur("next_block", block_function)>>)
           \o <<current_block(block_function)>>
           \o VisitParamList(node.params, aux_param_list.list)
           \o <<pred_cur(block_end),
                assign_cur("branch", block_end),
                block_append(block_end, Instr("exit:", <<>>)),
                visit(node.body)>>
           \o (IF void
               THEN <<block_append(block_end, Instr("return_void", <<>>))>>
               ELSE <<block_append(block_end, Instr("load_" \o node.type,
                                                    <<target_return, aux_return>>)),
                      block_append(block_end, Instr("return_" \o node.type, <<aux_return>>))>>)
           \o <<assign_cur("next_block", block_end),
                current_block(None)>>)

\* CodeGenerator.visit_Decl for a declaration of Program.gdecls (reached
\* through generic_visit of its GlobalDecl).  Once a function has been visited
\* fname is no longer "_glob_": the declaration is taken for a local one and
\* appended to current_block, which is None between functions.
VisitGlobalDecl(S, node) ==
    IF S.fname # "_glob_"
    THEN IF S.cur = None THEN [S EXCEPT !.status = "AttributeError"]
         ELSE VisitLocalDecl(S, node)
    ELSE [S EXCEPT !.text = Append(@,
             IF node.init.k = "None"
             THEN Instr("global_" \o node.type, <<"@" \o node.name>>)
             ELSE Instr("global_" \o node.type, <<"@" \o node.name, node.init.value>>))]

\* BlockVisitor.visit with EmitBlocks.visit_BasicBlock/visit_ConditionBlock:
\* the instructions of the blocks on the next_block chain from b.
RECURSIVE EmitBlocks(_, _)
RECURSIVE EmitBasicBlocks(_, _)

\* EmitBlocks without a visit_ConditionBlock method: BlockVisitor.visit passes
\* over the blocks of a class it has no method for.
EmitBasicBlocks(bs, b) ==
    IF b = None THEN <<>>
    ELSE (IF bs[b].kind = "BasicBlock" THEN bs[b].instructions ELSE <<>>)
         \o EmitBasicBlocks(bs, bs[b].next_block)

EmitBlocks(bs, b) ==
    IF b = None THEN <<>> ELSE bs[b].instructions \o EmitBlocks(bs, bs[b].next_block)

----------------------------------------------------------------------------
(* The optimizer (uc/uc_analysis.py).                                      *)

\* What a DataFlow object has: the fields set by __init__, the methods of the
\* class body and those inherited from NodeVisitor (uc/uc_sema.py).
DataFlowAttrs ==
    {"viewcfg", "code", "show", "visit_Program", "_method_cache", "visit", "generic_visit"}

\* The methods visit_Program calls on self for a FuncDef, in the order of the
\* calls.
Passes ==
    <<"buildRD_blocks", "computeRD_gen_kill", "computeRD_in_out", "constant_propagation",
      "buildLV_blocks", "computeLV_use_def", "computeLV_in_out", "deadcode_elimination",
      "short_circuit_jumps", "merge_blocks", "discard_unused_allocs", "appendOptimizedCode">>

\* The calls whose attribute lookup on self fails.
MissingPasses == {i \in 1..Len(Passes) : Passes[i] \notin DataFlowAttrs}

----------------------------------------------------------------------------
(* The state: the run of the compiler on one program, as the drivers       *)
(* (__main__ of uc_analysis.py, tests/test-p5/test_analysis.py) run it:    *)
(* gen.visit(ast), then opt.visit(ast).                                    *)

\* Calls of opt.visit(ast) on the same tree.
MaxRuns == 2

Unset == "<unset>"

VARIABLES
    prog,       \* Program.gdecls
    pc,         \* where the driver is
    idx,        \* the loop index into Program.gdecls
    blocks,     \* the heap of Block objects
    gen,        \* the CodeGenerator object
    cfg,        \* FuncDef.cfg of each declaration of Program.gdecls (None: not set)
    node_text,  \* Program.text
    opt,        \* the DataFlow object: code, and how visit_Program ended
    runs,       \* calls of opt.visit(ast) started so far
    prev_code,  \* DataFlow.code as the previous call of opt.visit(ast) left it
    lists,      \* the list object each of the attributes in ListNames refers to
    walk,       \* a call of BlockVisitor.visit: its loop variable and its output
    fmt         \* a call of format_instruction: its argument and its result

vars == <<prog, pc, idx, blocks, gen, cfg, node_text, opt, runs, prev_code, lists, walk, fmt>>

\* The attributes that hold an instruction list: CodeGenerator.text and .code,
\* Program.text, DataFlow.code.  Their contents are gen.text, gen.code,
\* node_text and opt.code; two attributes that refer to the same list object
\* see each other's appends.
ListNames == {"gen.text", "gen.code", "node.text", "opt.code"}

\* The copy of a list keeps the object it was taken from.
ListAlias(ls, name) == ls[name]

\* list.copy(), list[:]: a new list object.
ListCopy(ls, name) ==
    (CHOOSE m \in {ls[n] : n \in ListNames} : \A n \in ListNames : ls[n] <= m) + 1

\* No call of BlockVisitor.visit on its own, none of format_instruction.
NoWalk == [pc |-> "idle", block |-> None, emitted |-> 0]
NoFmt == [pc |-> "idle", t |-> <<>>, out |-> <<>>, status |-> Unset]

\* CodeGenerator.__init__, DataFlow.__init__, for a program of the set P and
\* a heap of the set H.
InitOf(P, H) ==
    /\ prog \in P
    /\ pc = "gen_visit"
    /\ idx = 1
    /\ blocks \in H
    /\ gen = [cur |-> None, fname |-> "_glob_", versions |-> ("_glob_" :> 0),
              code |-> <<>>, text |-> <<>>, ftype |-> Unset, return_key |-> Unset,
              current_break |-> Unset, status |-> "ok"]
    /\ cfg = [i \in 1..Len(prog) |-> None]
    /\ node_text = <<>>
    /\ opt = [code |-> <<>>, status |-> "ok", failed |-> Unset]
    /\ runs = 0
    /\ prev_code = <<>>
    /\ lists = [n \in ListNames |->
                 CASE n = "gen.text" -> 1 [] n = "gen.code" -> 2
                   [] n = "node.text" -> None [] n = "opt.code" -> 3]

Init ==
    /\ InitOf(Programs, {<<>>})
    /\ walk = NoWalk
    /\ fmt = NoFmt

\* The record the visitors thread, and back.
Thread == [gen EXCEPT !.status = "ok"] @@ [blocks |-> blocks, loc |-> Unset]
Fields(S) == [f \in DOMAIN gen |-> S[f]]

\* CodeGenerator.visit_Program, first loop, a global declaration.  An
\* exception leaves visit_Program, and the driver with it.
GenVisitGlobalDecl ==
    /\ pc = "gen_visit" /\ idx <= Len(prog) /\ prog[idx].k = "GlobalDecl"
    /\ LET S == VisitGlobalDecl(Thread, prog[idx])
       IN  /\ gen' = Fields(S)
           /\ blocks' = S.blocks
           /\ IF S.status = "ok" THEN pc' = pc /\ idx' = idx + 1
                                 ELSE pc' = "done" /\ idx' = idx
    /\ UNCHANGED <<prog, cfg, node_text, opt, runs, prev_code, lists, walk, fmt>>

\* CodeGenerator.visit_Program, first loop, a function definition.
GenVisitFuncDef ==
    /\ pc = "gen_visit" /\ idx <= Len(prog) /\ prog[idx].k = "FuncDef"
    /\ LET S == VisitFuncDef(Thread, prog[idx])
       IN  /\ gen' = Fields(S)
           /\ blocks' = S.blocks
           /\ cfg' = [cfg EXCEPT ![idx] = Len(blocks) + 1]
    /\ idx' = idx + 1
    /\ UNCHANGED <<prog, pc, node_text, opt, runs, prev_code, lists, walk, fmt>>

\* CodeGenerator.visit_Program: self.code = self.text.copy();
\* node.text = self.text.copy()
GenCopyText ==
    /\ pc = "gen_visit" /\ idx > Len(prog)
    /\ gen' = [gen EXCEPT !.code = gen.text]
    /\ node_text' = gen.text
    /\ LET l == [lists EXCEPT !["gen.code"] = ListCopy(lists, "gen.text")]
       IN  lists' = [l EXCEPT !["node.text"] = ListCopy(l, "gen.text")]
    /\ pc' = "gen_emit" /\ idx' = 1
    /\ UNCHANGED <<prog, blocks, cfg, opt, runs, prev_code, walk, fmt>>

\* CodeGenerator.visit_Program, second loop: a function's blocks are emitted
\* and appended to self.code, that is to the list object self.code refers to;
\* other declarations are passed over.
GenEmit ==
    /\ pc = "gen_emit" /\ idx <= Len(prog)
    /\ LET bb == IF prog[idx].k = "FuncDef" THEN EmitBlocks(blocks, cfg[idx]) ELSE <<>>
           appended(n) == IF lists[n] = lists["gen.code"] THEN bb ELSE <<>>
       IN  /\ gen' = [gen EXCEPT !.code = @ \o bb, !.text = @ \o appended("gen.text")]
           /\ node_text' = node_text \o appended("node.text")
           /\ opt' = [opt EXCEPT !.code = @ \o appended("opt.code")]
    /\ idx' = idx + 1
    /\ UNCHANGED <<prog, pc, blocks, cfg, runs, prev_code, lists, walk, fmt>>

\* DataFlow.visit_Program: self.code = node.text[:]
OptStart ==
    /\ \/ pc = "gen_emit" /\ idx > Len(prog)
       \/ pc = "opt_done" /\ runs < MaxRuns
    /\ prev_code' = opt.code
    /\ opt' = [code |-> node_text, status |-> "ok", failed |-> Unset]
    /\ lists' = [lists EXCEPT !["opt.code"] = ListCopy(lists, "node.text")]
    /\ runs' = runs + 1
    /\ pc' = "opt_visit" /\ idx' = 1
    /\ UNCHANGED <<prog, blocks, gen, cfg, node_text, walk, fmt>>

\* DataFlow.visit_Program, the loop: a declaration that is no FuncDef.
OptSkipDecl ==
    /\ pc = "opt_visit" /\ idx <= Len(prog) /\ prog[idx].k # "FuncDef"
    /\ idx' = idx + 1
    /\ UNCHANGED <<prog, pc, blocks, gen, cfg, node_text, opt, runs, prev_code, lists, walk, fmt>>

\* DataFlow.visit_Program, the loop: a FuncDef.  The first call of a method
\* the object does not have raises AttributeError, which leaves visit_Program.
OptFuncDef ==
    /\ pc = "opt_visit" /\ idx <= Len(prog) /\ prog[idx].k = "FuncDef"
    /\ MissingPasses # {}
    /\ LET first == CHOOSE i \in MissingPasses : \A j \in MissingPasses : i <= j
       IN  opt' = [opt EXCEPT !.status = "AttributeError", !.failed = Passes[first]]
    /\ pc' = "opt_done"
    /\ UNCHANGED <<prog, idx, blocks, gen, cfg, node_text, runs, prev_code, lists, walk, fmt>>

\* DataFlow.visit_Program returns (viewcfg is False in the drivers).
OptReturn ==
    /\ pc = "opt_visit" /\ idx > Len(prog)
    /\ pc' = "opt_done"
    /\ UNCHANGED <<prog, idx, blocks, gen, cfg, node_text, opt, runs, prev_code, lists, walk, fmt>>

Next ==
    \/ GenVisitGlobalDecl
    \/ GenVisitFuncDef
    \/ GenCopyText
    \/ GenEmit
    \/ OptStart
    \/ OptSkipDecl
    \/ OptFuncDef
    \/ OptReturn

Spec == Init /\ [][Next]_vars

----------------------------------------------------------------------------
(* Observations of the state the properties below are stated with.         *)

FuncDefs == {i \in 1..Len(prog) : prog[i].k = "FuncDef"}

\* The functions whose CFG has been built.
Built == {i \in FuncDefs : cfg[i] # None}

\* The blocks met by following next_block from b, at most fuel of them.
RECURSIVE Chain(_, _)
Chain(b, fuel) ==
    IF b = None \/ fuel = 0 THEN <<>>
    ELSE <<b>> \o Chain(blocks[b].next_block, fuel - 1)

\* The chain of function i: longer than the heap if and only if it cycles.
ChainOf(i) == Chain(cfg[i], Len(blocks) + 1)

Range(f) == {f[j] : j \in DOMAIN f}

\* The blocks a block refers to.
Links(b) ==
    ({blocks[b].next_block, blocks[b].branch, blocks[b].taken, blocks[b].fall_through}
     \cup Range(blocks[b].predecessors)) \ {None}

RECURSIVE Closure(_)
Closure(s) ==
    LET t == s \cup UNION {Links(b) : b \in s}
    IN  IF t = s THEN s ELSE Closure(t)

\* The blocks of function i: those its first block leads to through any link.
BlocksOf(i) == Closure({cfg[i]})

\* What DataFlow.visit_Program and CodeGenerator.visit_Program are to lay
\* after the globals: each function's linearized code, in gdecls order.
RECURSIVE Layout(_)
Layout(i) ==
    IF i > Len(prog) THEN <<>>
    ELSE (IF prog[i].k = "FuncDef" THEN EmitBlocks(blocks, cfg[i]) ELSE <<>>) \o Layout(i + 1)

\* Whether the call of pass p returned in the last visit_Program.
PassIndex(p) == CHOOSE i \in 1..Len(Passes) : Passes[i] = p
Ran(p) ==
    \/ opt.status = "ok" /\ FuncDefs # {}
    \/ opt.failed # Unset /\ PassIndex(p) < PassIndex(opt.failed)

----------------------------------------------------------------------------
(* The emission chain and the condition blocks of a built CFG.             *)

\* C9: in every function the builder has finished, following next_block from
\* the function's first block never meets a block twice, meets every block of
\* the function (every block the first block leads to through next_block,
\* branch, taken, fall_through or predecessors) and ends at the function's
\* exit block, whose next_block is None.  A block object nothing refers to
\* (the '%if_else' block visit_If constructs for an if without an else
\* branch) is no block of the function.
C9_ChainVisitsEveryBlockOnce ==
    \A i \in Built :
        LET chain == ChainOf(i)
        IN  /\ Len(chain) >= 1 /\ Len(chain) <= Len(blocks)
            /\ \A j, k \in 1..Len(chain) : chain[j] = chain[k] => j = k
            /\ BlocksOf(i) = Range(chain)
            /\ blocks[chain[Len(chain)]].label = "%exit"
            /\ chain[Len(chain)] = cfg[i] + 1
            /\ blocks[chain[Len(chain)]].next_block = None

\* A function with a loop and a conditional inside it has been built: its
\* control edges cycle, and its chain runs over seven blocks or more.
C9_Witness ==
    \E i \in Built :
        /\ Len(ChainOf(i)) >= 7
        /\ \E b \in Range(ChainOf(i)) : blocks[b].label = "%while_test"
        /\ \E b \in Range(ChainOf(i)) : blocks[b].label \in {"%if", "%assert"}
        /\ blocks[ChainOf(i)[Len(ChainOf(i))]].label = "%exit"

\* C10: every ConditionBlock of a finished function has both taken and
\* fall_through set, and a cbranch as its last instruction.
C10_ConditionBlocksHaveBothSuccessors ==
    \A i \in Built : \A b \in BlocksOf(i) :
        blocks[b].kind = "ConditionBlock" =>
            /\ blocks[b].taken # None
            /\ blocks[b].fall_through # None
            /\ Len(blocks[b].instructions) >= 1
            /\ blocks[b].instructions[Len(blocks[b].instructions)].op = "cbranch"

----------------------------------------------------------------------------
(* Flat code: the instruction sequences gen.code and DataFlow.code, and    *)
(* the control flow their labels and jumps describe.                       *)

DefineOps == {"define_int", "define_void"}
LoadOps == {"load_int"}
StoreOps == {"store_int"}
EffectOps == {"call_int", "call_void", "print_int", "print_string", "print_void",
              "return_int", "return_void"}

IsEffect(ins) == ins.op \in EffectOps
IsLoadOf(ins, s) == ins.op \in LoadOps /\ ins.args[1] = s
IsStoreTo(ins, s) == ins.op \in StoreOps /\ ins.args[2] = s

\* The first and last position of the function position p of c lies in.
FuncStart(c, p) ==
    CHOOSE q \in 1..p : c[q].op \in DefineOps /\ \A r \in (q + 1)..p : c[r].op \notin DefineOps
FuncEnd(c, p) ==
    CHOOSE q \in p..Len(c) : /\ \A r \in (p + 1)..q : c[r].op \notin DefineOps
                             /\ (q = Len(c) \/ c[q + 1].op \in DefineOps)

\* The positions, in p's function, of the label instruction a target names:
\* target "%L" names the instruction ("L:",).
Labelled(c, p, target) ==
    {q \in FuncStart(c, p)..FuncEnd(c, p) : "%" \o c[q].op = target \o ":"}

\* The positions control may pass to from position p.
Succ(c, p) ==
    IF c[p].op = "jump" THEN Labelled(c, p, c[p].args[1])
    ELSE IF c[p].op = "cbranch"
         THEN Labelled(c, p, c[p].args[2]) \cup Labelled(c, p, c[p].args[3])
    ELSE IF c[p].op \in {"return_int", "return_void"} \/ p = FuncEnd(c, p) THEN {}
    ELSE {p + 1}

\* The positions reached from the positions front along paths on which no
\* instruction before the last one stores to slot s.
RECURSIVE Reach(_, _, _, _)
Reach(c, s, seen, front) ==
    IF front \subseteq seen THEN seen
    ELSE LET new == front \ seen
         IN  Reach(c, s, seen \cup new,
                   UNION {Succ(c, q) : q \in {r \in new : ~IsStoreTo(c[r], s)}})

\* The positions of c that lie in a function.
InFunction(c) == {p \in 1..Len(c) : \E q \in 1..p : c[q].op \in DefineOps}

Stores(c) == {p \in InFunction(c) : c[p].op \in StoreOps}
Loads(c) == {p \in InFunction(c) : c[p].op \in LoadOps}

\* The store at p is read: on some path from it, before the next write to its
\* slot or the function's end, an instruction loads the slot.
ReadLater(c, p) ==
    \E q \in Reach(c, c[p].args[2], {}, Succ(c, p)) : IsLoadOf(c[q], c[p].args[2])

\* The stores whose value may be the one the load at q reads, and whether the
\* value the slot had at the function's entry may be.
ReachingStores(c, q) ==
    {p \in Stores(c) : /\ FuncStart(c, p) = FuncStart(c, q)
                       /\ c[p].args[2] = c[q].args[1]
                       /\ q \in Reach(c, c[q].args[1], {}, Succ(c, p))}
ReachedFromEntry(c, q) == q \in Reach(c, c[q].args[1], {}, {FuncStart(c, q)})

\* The store at p assigns a literal: the temporary it stores is the target of
\* a literal instruction of the function.
StoresLiteral(c, p) ==
    \E r \in FuncStart(c, p)..p : c[r].op = "literal_int" /\ c[r].args[2] = c[p].args[1]

\* The load at q is one constant propagation is to rewrite: one definition
\* reaches it, and that definition assigns a literal.
Propagable(c, q) ==
    /\ ~ReachedFromEntry(c, q)
    /\ Cardinality(ReachingStores(c, q)) = 1
    /\ \A p \in ReachingStores(c, q) : StoresLiteral(c, p)

\* How many times instruction ins occurs in c.
Count(c, ins) == Cardinality({p \in 1..Len(c) : c[p] = ins})

\* Whether c defines the entry point the interpreter starts from.
HasMain(c) == \E p \in 1..Len(c) : c[p].op \in DefineOps /\ c[p].args[1] = "@main"

----------------------------------------------------------------------------
(* The optimizer: DataFlow.visit_Program after CodeGenerator.visit_Program. *)

\* C1: the code DataFlow.visit_Program leaves behaves as the code
\* CodeGenerator.visit_Program left.  Stated for the exit behaviour: the
\* optimizer returns (there is a post-optimization program to run), and that
\* program has the entry point @main whenever the original has it, without
\* which a run neither prints the original's output nor exits with code 0.
C1_OptimizedCodeBehavesAsOriginal ==
    pc = "opt_done" =>
        /\ opt.status = "ok"
        /\ HasMain(opt.code) = HasMain(gen.code)

\* C2: after visit_Program, DataFlow.code is Program.text followed by each
\* function's linearized code in the order of the FuncDefs in gdecls, and
\* CodeGenerator.code has the same layout.
C2_CodeIsTextThenFunctions ==
    pc = "opt_done" =>
        /\ gen.code = node_text \o Layout(1)
        /\ opt.code = node_text \o Layout(1)

\* C3: the optimized code is never longer than the original, it is shorter
\* when the original holds a propagable constant or a dead store, and for a
\* program with an entry point the optimizer returns a non-empty code (the
\* tests divide len(gencode) by len(optcode)).
C3_OptimizedCodeIsNoLonger ==
    pc = "opt_done" =>
        /\ Len(opt.code) <= Len(gen.code)
        /\ (\/ \E q \in Loads(gen.code) : Propagable(gen.code, q)
            \/ \E p \in Stores(gen.code) : ~ReadLater(gen.code, p))
               => Len(opt.code) < Len(gen.code)
        /\ HasMain(gen.code) => opt.status = "ok" /\ Len(opt.code) # 0

\* C4: a second run of the pipeline over the result of the first run ends as
\* the first did and leaves the same instruction sequence.
C4_SecondRunChangesNothing ==
    pc = "opt_done" /\ runs >= 2 =>
        /\ opt.status = "ok"
        /\ opt.code = prev_code

\* C5: for every function, the two fixed-point steps of the dataflow engine
\* (computeRD_in_out, computeLV_in_out) terminate: their calls return.
C5_DataflowStepsTerminate ==
    pc = "opt_done" /\ FuncDefs # {} =>
        /\ Ran("computeRD_in_out")
        /\ Ran("computeLV_in_out")

\* C6: after constant propagation no load is left whose slot has exactly one
\* reaching definition, that definition assigning a literal: every such use
\* reads the literal directly.
C6_SingleLiteralDefinitionsArePropagated ==
    pc = "opt_done" /\ FuncDefs # {} =>
        /\ Ran("constant_propagation")
        /\ \A q \in Loads(Layout(1)) : ~Propagable(Layout(1), q)

\* C7: a store of the original code that the optimized code no longer has
\* was dead: on no path from it, before the next write to its slot or the
\* function's end, does an instruction read the slot.
C7_OnlyDeadStoresAreRemoved ==
    pc = "opt_done" =>
        \A p \in Stores(gen.code) :
            Count(opt.code, gen.code[p]) < Count(gen.code, gen.code[p])
                => ~ReadLater(gen.code, p)

\* C8: every call, print and return instruction of the original code is
\* still in the optimized code.
C8_EffectsAreKept ==
    pc = "opt_done" =>
        \A p \in 1..Len(gen.code) :
            IsEffect(gen.code[p])
                => Count(opt.code, gen.code[p]) >= Count(gen.code, gen.code[p])

----------------------------------------------------------------------------
(* The shape of a built CFG: block endings, the entry and exit blocks, and *)
(* the temporaries of a function.                                          *)

ReturnOps == {"return_int", "return_void"}

\* The exit block of function i: visit_FuncDef constructs it right after the
\* entry block.
ExitOf(i) == cfg[i] + 1

LastInstr(b) == blocks[b].instructions[Len(blocks[b].instructions)]

\* C11: in every built CFG, the last instruction of every block other than
\* the function's entry and exit blocks is a jump, a cbranch or a return.
C11_BlocksEndInControlTransfer ==
    \A i \in Built : \A b \in BlocksOf(i) \ {cfg[i], ExitOf(i)} :
        /\ Len(blocks[b].instructions) >= 1
        /\ LastInstr(b).op \in {"jump", "cbranch"} \cup ReturnOps

\* C12: in every function CFG the entry block has the empty label and holds
\* the define instruction; the exit block is labelled, and the function's
\* blocks hold exactly one return instruction, the last one of the exit block.
C12_EntryAndExitBlocks ==
    \A i \in Built :
        /\ blocks[cfg[i]].label = ""
        /\ \E j \in 1..Len(blocks[cfg[i]].instructions) :
               blocks[cfg[i]].instructions[j].op \in DefineOps
        /\ blocks[ExitOf(i)].label # ""
        /\ LastInstr(ExitOf(i)).op \in ReturnOps
        /\ \A b \in BlocksOf(i) : \A j \in 1..Len(blocks[b].instructions) :
               blocks[b].instructions[j].op \in ReturnOps
                   => b = ExitOf(i) /\ j = Len(blocks[b].instructions)

\* The instructions whose last operand is the temporary they define; an
\* alloc defines one when it allocates the return slot, which is a temporary.
DefiningOps ==
    {"literal_int", "load_int", "alloc_int", "lt_int", "call_int", "call_void"}

\* The slots named after a variable of the program.
NamedSlots == {"%x", "%y", "@x", "@y"}

\* The names function code c defines, one entry per defining occurrence: the
\* parameters' temporaries of the define line and the targets of instructions.
RECURSIVE Defined(_)
Defined(c) ==
    IF Len(c) = 0 THEN <<>>
    ELSE LET ins == Head(c)
         IN  (IF ins.op \in DefineOps THEN [k \in 1..Len(ins.params) |-> ins.params[k][2]]
              ELSE IF ins.op \in DefiningOps /\ ins.args[Len(ins.args)] \notin NamedSlots
                   THEN <<ins.args[Len(ins.args)]>>
              ELSE <<>>) \o Defined(Tail(c))

\* C13: within the code of one function no temporary is the destination of
\* two instructions: the names new_temp handed out for it are all distinct,
\* the one reserved for the return load included.
C13_TemporariesAreDistinct ==
    \A i \in Built :
        LET d == Defined(EmitBlocks(blocks, cfg[i]))
        IN  \A j, k \in 1..Len(d) : d[j] = d[k] => j = k

----------------------------------------------------------------------------
(* The global section.                                                     *)

\* C14: once CodeGenerator.visit_Program has copied the global section into
\* node.text, no step changes node.text or CodeGenerator.text: appending the
\* functions' code to CodeGenerator.code and every call of
\* DataFlow.visit_Program leave both as they were.
C14_GlobalSectionIsNeverModified ==
    [][pc # "gen_visit" => node_text' = node_text /\ gen'.text = gen.text]_vars

\* The optimizer has been called on a program with a global section after
\* function code was appended to CodeGenerator.code.
C14_Witness ==
    /\ pc = "opt_done"
    /\ Len(node_text) >= 1
    /\ Len(gen.code) > Len(node_text)
    /\ opt.code = node_text

----------------------------------------------------------------------------
(* BlockVisitor.visit (uc/uc_block.py) on any chain of blocks, the         *)
(* malformed ones included: the loop EmitBlocks and CFG.view run.          *)

\* Blocks of a heap the traversal is called on.
MaxBlocks == 3

\* Instructions counted in EmitBlocks.code; a longer output counts as this.
MaxEmitted == 4

\* The heaps of MaxBlocks basic blocks holding their label line, with any
\* next_block links; block 1 is the one the traversal is called on.
WalkHeaps ==
    {[b \in 1..MaxBlocks |->
        [Block("BasicBlock", "%b" \o ToString(b))
            EXCEPT !.instructions = <<Instr("b" \o ToString(b) \o ":", <<>>)>>,
                   !.next_block = nx[b]]] :
     nx \in [1..MaxBlocks -> 0..MaxBlocks]}

WalkInit ==
    /\ InitOf({<<>>}, WalkHeaps)
    /\ walk = [pc |-> "loop", block |-> 1, emitted |-> 0]
    /\ fmt = NoFmt

\* while isinstance(block, Block): getattr(self, name)(block), which for
\* EmitBlocks appends the block's instructions to self.code.
WalkVisitBlock ==
    /\ walk.pc = "loop" /\ walk.block # None
    /\ walk' = [walk EXCEPT
                  !.emitted = IF @ + Len(blocks[walk.block].instructions) > MaxEmitted
                              THEN MaxEmitted
                              ELSE @ + Len(blocks[walk.block].instructions),
                  !.pc = "advance"]
    /\ UNCHANGED <<prog, pc, idx, blocks, gen, cfg, node_text, opt, runs, prev_code, lists, fmt>>

\* block = block.next_block
WalkAdvance ==
    /\ walk.pc = "advance"
    /\ walk' = [walk EXCEPT !.block = blocks[walk.block].next_block, !.pc = "loop"]
    /\ UNCHANGED <<prog, pc, idx, blocks, gen, cfg, node_text, opt, runs, prev_code, lists, fmt>>

\* The loop ends: block is None.
WalkReturn ==
    /\ walk.pc = "loop" /\ walk.block = None
    /\ walk' = [walk EXCEPT !.pc = "returned"]
    /\ UNCHANGED <<prog, pc, idx, blocks, gen, cfg, node_text, opt, runs, prev_code, lists, fmt>>

WalkNext ==
    \/ WalkVisitBlock
    \/ WalkAdvance
    \/ WalkReturn

\* The interpreter runs the loop as long as it can.
WalkSpec == WalkInit /\ [][WalkNext]_vars /\ WF_vars(WalkNext)

\* The next_block chain from block 1 comes back to a block it has visited.
WalkCycles == Len(Chain(1, MaxBlocks + 1)) > MaxBlocks

\* C15: a traversal of a CFG, malformed or not, comes to an end, and one of
\* a chain that cycles emits nothing.
C15_TraversalStopsOnMalformedCfg ==
    /\ <>(walk.pc \in {"returned", "error"})
    /\ [](WalkCycles => walk.emitted = 0)

----------------------------------------------------------------------------
(* The optimizer's pipeline.                                               *)

\* Code c offers nothing to optimize: no load to propagate a constant into,
\* no dead store, no allocation that is never loaded.
NothingToOptimize(c) ==
    /\ \A q \in Loads(c) : ~Propagable(c, q)
    /\ \A p \in Stores(c) : ReadLater(c, p)
    /\ \A p \in InFunction(c) :
           c[p].op = "alloc_int" => \E q \in Loads(c) : /\ FuncStart(c, q) = FuncStart(c, p)
                                                        /\ c[q].args[1] = c[p].args[1]

\* C16: for a program that offers no optimization opportunity (nothing to
\* optimize in its code, and functions made of their entry and exit blocks
\* only, which leaves no block to merge or to thread), DataFlow.visit_Program
\* returns without raising and DataFlow.code is CodeGenerator.code.
C16_NoOpportunityIsTheIdentity ==
    (/\ pc = "opt_done"
     /\ NothingToOptimize(gen.code)
     /\ \A i \in Built : BlocksOf(i) = {cfg[i], ExitOf(i)})
        => opt.status = "ok" /\ opt.code = gen.code

\* C17: after the simplification rewrites (short_circuit_jumps, merge_blocks,
\* discard_unused_allocs) have run on a function, its emission-order chain
\* still visits every block once and ends at the exit block.  (The blocks
\* are those CodeGenerator built: no step of the optimizer changes a control
\* edge, so the exit block is reached from where it was reached before.)
C17_SimplificationKeepsTheChain ==
    pc = "opt_done" /\ FuncDefs # {} =>
        /\ Ran("short_circuit_jumps") /\ Ran("merge_blocks") /\ Ran("discard_unused_allocs")
        /\ \A i \in Built :
               LET chain == ChainOf(i)
               IN  /\ Len(chain) <= Len(blocks)
                   /\ Range(chain) = BlocksOf(i)
                   /\ chain[Len(chain)] = ExitOf(i)

\* The order the passes are to run in, for each function.
PassOrder ==
    <<"buildRD_blocks", "computeRD_gen_kill", "computeRD_in_out", "constant_propagation",
      "buildLV_blocks", "computeLV_use_def", "computeLV_in_out", "deadcode_elimination",
      "short_circuit_jumps", "merge_blocks", "discard_unused_allocs", "appendOptimizedCode">>

\* C20: for each function DataFlow.visit_Program runs the passes in the order
\* PassOrder, each once, and appends the function's code after them: when
\* visit_Program has ended, every pass of the order has run.
C20_PassesRunInOrder ==
    pc = "opt_done" /\ FuncDefs # {} =>
        /\ Passes = PassOrder
        /\ \A k \in 1..Len(PassOrder) : Ran(PassOrder[k])

----------------------------------------------------------------------------
(* format_instruction (uc/uc_block.py).  A Python string is the sequence   *)
(* of its characters here, so that split and startswith are what they are *)
(* in Python.  An instruction tuple t is the record of t[0] (name), of its *)
(* string operands t[1], t[2], ... (args) and, for a define line, of the   *)
(* parameter list that follows them (plist: no element, or the one list).  *)

\* str.split(sep)
RECURSIVE Split(_, _)
Split(str, sep) ==
    IF \E i \in 1..Len(str) : str[i] = sep
    THEN LET i == CHOOSE j \in 1..Len(str) : str[j] = sep /\ \A k \in 1..(j - 1) : str[k] # sep
         IN  <<SubSeq(str, 1, i - 1)>> \o Split(SubSeq(str, i + 1, Len(str)), sep)
    ELSE <<str>>

\* str.startswith(prefix)
StartsWith(str, prefix) ==
    Len(str) >= Len(prefix) /\ SubSeq(str, 1, Len(prefix)) = prefix

\* sep.join(list)
RECURSIVE Join(_, _)
Join(sep, list) ==
    IF Len(list) = 0 THEN <<>>
    ELSE IF Len(list) = 1 THEN list[1]
    ELSE list[1] \o sep \o Join(sep, Tail(list))

RECURSIVE Spaced(_)
RECURSIVE SpacedBackwards(_)

\* The elements of the list from the last to the first, a space after each.
SpacedBackwards(list) ==
    IF Len(list) = 0 THEN <<>>
    ELSE SpacedBackwards(Tail(list)) \o Head(list) \o <<" ">>

\* for _el in list: _str += f"{_el} "
Spaced(list) ==
    IF Len(list) = 0 THEN <<>> ELSE Head(list) \o <<" ">> \o Spaced(Tail(list))

\* for _qual in operand[2:]: ty += "*" or ty += f"[{_qual}]"
RECURSIVE Qualified(_, _)
Qualified(ty, quals) ==
    IF Len(quals) = 0 THEN ty
    ELSE Qualified(IF Head(quals) = <<"*">> THEN ty \o <<"*">>
                   ELSE ty \o <<"[">> \o Head(quals) \o <<"]">>,
                   Tail(quals))

\* len(t)
TupleLen(t) == 1 + Len(t.args) + Len(t.plist)

\* The indentation of a line with operands: one space.
IndentOne(op) == IF op = <<"g", "l", "o", "b", "a", "l">> THEN <<>> ELSE <<" ">>

\* _str = "" if op == "global" else "  "
Indent(op) == IF op = <<"g", "l", "o", "b", "a", "l">> THEN <<>> ELSE <<" ", " ">>

\* What a call returns or raises.
Returned(str) == [status |-> "ok", str |-> str]
Raised(exception) == [status |-> exception, str |-> <<>>]

\* The branch of format_instruction for a tuple with operands that is no
\* define line; t[k] is t.args[k].
FormatOperands(t, op, hasTy, ty) ==
    LET a == t.args
        n == Len(a)
    IN  IF op = <<"j", "u", "m", "p">> THEN Returned(Indent(op) \o op \o <<" ", "l", "a", "b", "e", "l", " ">> \o a[1])
        ELSE IF op = <<"c", "b", "r", "a", "n", "c", "h">>
             THEN IF n < 3 THEN Raised("IndexError")
                  ELSE Returned(Indent(op) \o op \o <<" ">> \o a[1] \o <<" ", "l", "a", "b", "e", "l", " ">> \o a[2]
                                \o <<" ", "l", "a", "b", "e", "l", " ">> \o a[3])
        ELSE IF op = <<"g", "l", "o", "b", "a", "l">>
             THEN IF ~hasTy THEN Raised("AttributeError")
                  ELSE IF StartsWith(ty, <<"s", "t", "r", "i", "n", "g">>)
                       THEN IF n < 2 THEN Raised("IndexError")
                            ELSE Returned(Indent(op) \o a[1] \o <<" ", "=", " ">> \o op \o <<" ">> \o ty
                                          \o <<" ", "'">> \o a[2] \o <<"'">>)
                  ELSE IF n + 1 > 2
                       THEN Returned(Indent(op) \o a[1] \o <<" ", "=", " ">> \o op \o <<" ">> \o ty
                                     \o <<" ">> \o a[2])
                  ELSE Returned(Indent(op) \o a[1] \o <<" ", "=", " ">> \o op \o <<" ">> \o ty)
        ELSE IF op = <<"r", "e", "t", "u", "r", "n">> \/ op = <<"p", "r", "i", "n", "t">>
             THEN Returned(Indent(op) \o op \o <<" ">> \o ty \o <<" ">> \o a[1])
        ELSE IF op = <<"s", "i", "t", "o", "f", "p">> \/ op = <<"f", "p", "t", "o", "s", "i">>
             THEN IF n < 2 THEN Raised("IndexError")
                  ELSE Returned(Indent(op) \o a[2] \o <<" ", "=", " ">> \o op \o <<" ">> \o a[1])
        ELSE IF op = <<"s", "t", "o", "r", "e">> \/ op = <<"p", "a", "r", "a", "m">>
             THEN Returned(Indent(op) \o op \o <<" ">> \o ty \o <<" ">> \o Spaced(a))
        ELSE Returned(Indent(op) \o a[n] \o <<" ", "=", " ">> \o op \o <<" ">> \o ty \o <<" ">>
                      \o Spaced(SubSeq(a, 1, n - 1)))

\* format_instruction(t)
FormatInstruction(t) ==
    LET operand == Split(t.name, "_")
        op == operand[1]
        hasTy == Len(operand) > 1
        ty == IF hasTy THEN Qualified(operand[2], SubSeq(operand, 3, Len(operand)))
              ELSE <<"N", "o", "n", "e">>
    IN  IF TupleLen(t) > 1
        THEN IF op = <<"d", "e", "f", "i", "n", "e">>
             THEN IF Len(t.args) < 1 \/ Len(t.plist) < 1 THEN Raised("IndexError")
                  ELSE Returned(<<"\n">> \o op \o <<" ">> \o ty \o <<" ">> \o t.args[1] \o <<" ", "(">>
                                \o Join(<<",", " ">>, [k \in 1..Len(t.plist[1]) |->
                                                  Join(<<" ">>, t.plist[1][k])])
                                \o <<")">>)
             ELSE FormatOperands(t, op, hasTy, ty)
        ELSE IF hasTy /\ ty = <<"v", "o", "i", "d">> THEN Returned(<<" ", " ">> \o op)
        ELSE Returned(op)

\* The instruction tuples the code generator and the tests hand to
\* format_instruction: global lines with and without an initializer, define
\* lines with zero to two parameters, instructions of one, two and three
\* operands, operand-less instructions and the labels visit_Assert appends.
Tuple(name, args, plist) == [name |-> name, args |-> args, plist |-> plist]

GlobalTuples ==
    {Tuple(name, args, <<>>) :
        name \in {<<"g", "l", "o", "b", "a", "l", "_", "i", "n", "t">>, <<"g", "l", "o", "b", "a", "l", "_", "c", "h", "a", "r">>, <<"g", "l", "o", "b", "a", "l", "_", "f", "l", "o", "a", "t">>, <<"g", "l", "o", "b", "a", "l", "_", "s", "t", "r", "i", "n", "g">>, <<"g", "l", "o", "b", "a", "l", "_", "i", "n", "t", "_", "2">>},
        args \in {<<<<"@", "x">>>>, <<<<"@", "x">>, <<"1">>>>, <<<<"@", "x">>, <<"s">>>>}}

DefineTuples ==
    {Tuple(name, <<<<"@", "m", "a", "i", "n">>>>, <<params>>) :
        name \in {<<"d", "e", "f", "i", "n", "e", "_", "i", "n", "t">>, <<"d", "e", "f", "i", "n", "e", "_", "v", "o", "i", "d">>},
        params \in {<<>>, <<<<<<"i", "n", "t">>, <<"%", "1">>>>>>, <<<<<<"i", "n", "t">>, <<"%", "1">>>>, <<<<"i", "n", "t">>, <<"%", "2">>>>>>}}

OneOperandTuples ==
    {Tuple(name, <<a>>, <<>>) :
        name \in {<<"j", "u", "m", "p">>, <<"r", "e", "t", "u", "r", "n", "_", "i", "n", "t">>, <<"p", "r", "i", "n", "t", "_", "i", "n", "t">>, <<"p", "r", "i", "n", "t", "_", "s", "t", "r", "i", "n", "g">>, <<"p", "a", "r", "a", "m", "_", "i", "n", "t">>,
                  <<"a", "l", "l", "o", "c", "_", "i", "n", "t">>, <<"a", "l", "l", "o", "c", "_", "i", "n", "t", "_", "2">>},
        a \in {<<"%", "1">>, <<"%", "2">>}}

TwoOperandTuples ==
    {Tuple(name, args, <<>>) :
        name \in {<<"s", "t", "o", "r", "e", "_", "i", "n", "t">>, <<"s", "t", "o", "r", "e", "_", "i", "n", "t", "_", "*">>, <<"l", "o", "a", "d", "_", "i", "n", "t">>, <<"l", "i", "t", "e", "r", "a", "l", "_", "i", "n", "t">>, <<"s", "i", "t", "o", "f", "p">>,
                  <<"f", "p", "t", "o", "s", "i">>, <<"c", "a", "l", "l", "_", "i", "n", "t">>,
                  <<"n", "o", "t", "_", "b", "o", "o", "l">>},
        args \in {<<<<"%", "1">>, <<"%", "2">>>>, <<<<"%", "2">>, <<"%", "1">>>>}}

ThreeOperandTuples ==
    {Tuple(name, <<<<"%", "1">>, <<"%", "2">>, <<"%", "3">>>>, <<>>) :
        name \in {<<"c", "b", "r", "a", "n", "c", "h">>, <<"a", "d", "d", "_", "i", "n", "t">>, <<"l", "t", "_", "i", "n", "t">>,
                  <<"a", "n", "d", "_", "b", "o", "o", "l">>}}

NoOperandTuples ==
    {Tuple(name, <<>>, <<>>) :
        name \in {<<"r", "e", "t", "u", "r", "n", "_", "v", "o", "i", "d">>, <<"p", "r", "i", "n", "t", "_", "v", "o", "i", "d">>, <<"a", "s", "s", "e", "r", "t", ":">>, <<"a", "s", "s", "e", "r", "t", "_", "t", "r", "u", "e", ":">>,
                  <<"a", "s", "s", "e", "r", "t", "_", "f", "a", "l", "s", "e", ":">>}}

FormatInputs ==
    GlobalTuples \cup DefineTuples \cup OneOperandTuples \cup TwoOperandTuples
        \cup ThreeOperandTuples \cup NoOperandTuples

\* One call of format_instruction on one tuple.
FormatInit ==
    /\ InitOf({<<>>}, {<<>>})
    /\ walk = NoWalk
    /\ fmt \in {[pc |-> "call", t |-> t, out |-> <<>>, status |-> Unset] : t \in FormatInputs}

FormatCall ==
    /\ fmt.pc = "call"
    /\ LET r == FormatInstruction(fmt.t)
       IN  fmt' = [fmt EXCEPT !.pc = "returned", !.out = r.str, !.status = r.status]
    /\ UNCHANGED <<prog, pc, idx, blocks, gen, cfg, node_text, opt, runs, prev_code, lists, walk>>

FormatNext == FormatCall

FormatSpec == FormatInit /\ [][FormatNext]_vars

\* Observations of a finished call.
FormatOp == Split(fmt.t.name, "_")[1]
FormatTy == Split(fmt.t.name, "_")[2]
FormatIsVoid == Len(Split(fmt.t.name, "_")) = 2 /\ FormatTy = <<"v", "o", "i", "d">>
IndentedByTwo ==
    Len(fmt.out) >= 3 /\ fmt.out[1] = " " /\ fmt.out[2] = " " /\ fmt.out[3] # " "
NotIndented == Len(fmt.out) >= 1 /\ fmt.out[1] # " " /\ fmt.out[1] # "\n"
AfterBlankLine == Len(fmt.out) >= 2 /\ fmt.out[1] = "\n" /\ fmt.out[2] # " "

\* C18 (as stated): format_instruction renders every instruction other than
\* global and define with exactly two leading spaces, a global without
\* indentation, and a define line after a line break.
C18_EveryOtherInstructionIsIndented ==
    (fmt.pc = "returned" /\ fmt.status = "ok") =>
        IF FormatOp = <<"g", "l", "o", "b", "a", "l">> THEN NotIndented
        ELSE IF FormatOp = <<"d", "e", "f", "i", "n", "e">> THEN AfterBlankLine
        ELSE IndentedByTwo

\* C18 (amended): an instruction with operands other than global and define,
\* and an operand-less instruction of type void, are rendered with exactly two
\* leading spaces; any other operand-less tuple (a label) is rendered without
\* indentation; a global has no indentation and a define line starts with a
\* line break.
C18_IndentationOfRenderedLines ==
    (fmt.pc = "returned" /\ fmt.status = "ok") =>
        IF TupleLen(fmt.t) = 1 /\ ~FormatIsVoid THEN NotIndented
        ELSE IF FormatOp = <<"g", "l", "o", "b", "a", "l">> THEN NotIndented
        ELSE IF FormatOp = <<"d", "e", "f", "i", "n", "e">> THEN AfterBlankLine
        ELSE IndentedByTwo

C18_Witness ==
    /\ fmt.pc = "returned"
    /\ fmt.t = Tuple(<<"a", "s", "s", "e", "r", "t", ":">>, <<>>, <<>>)
    /\ fmt.out = <<"a", "s", "s", "e", "r", "t", ":">>

\* C19: format_instruction renders a global as <name> = global <type>,
\* followed by the quoted string or by the value when there is one, and for
\* a tuple of two elements of any type, string included, it returns the
\* rendering without the assignment and does not fail.
C19_GlobalsAreRendered ==
    (fmt.pc = "returned" /\ FormatOp = <<"g", "l", "o", "b", "a", "l">>) =>
        /\ fmt.status = "ok"
        /\ StartsWith(fmt.out, fmt.t.args[1] \o <<" ", "=", " ", "g", "l", "o", "b", "a", "l", " ">>)
        /\ TupleLen(fmt.t) = 2 =>
              fmt.out = fmt.t.args[1] \o <<" ", "=", " ", "g", "l", "o", "b", "a", "l", " ">>
                            \o Qualified(FormatTy, SubSeq(Split(fmt.t.name, "_"), 3,
                                                          Len(Split(fmt.t.name, "_"))))

----------------------------------------------------------------------------
(* The linearizer and the edges of a built CFG.                            *)

RECURSIVE Flatten(_)
Flatten(ss) == IF Len(ss) = 0 THEN <<>> ELSE Head(ss) \o Flatten(Tail(ss))

\* The instruction lists of the blocks on the chain of function i, one after
\* the other.
ChainCode(i) == Flatten([j \in 1..Len(ChainOf(i)) |-> blocks[ChainOf(i)[j]].instructions])

\* C21: the step of CodeGenerator.visit_Program that emits a function appends
\* to the code exactly the instruction lists of the blocks on the function's
\* next_block chain, in chain order and each in its own order, whatever the
\* blocks' kinds, and leaves the blocks as they were.
C21_EmitIsTheChainsConcatenation ==
    [][(pc = "gen_emit" /\ idx <= Len(prog) /\ prog[idx].k = "FuncDef")
          => gen'.code = gen.code \o ChainCode(idx) /\ blocks' = blocks]_vars

\* A function whose chain holds a ConditionBlock has been emitted: its
\* cbranch is in the code.
C21_Witness ==
    /\ pc = "gen_emit" /\ idx > 1 /\ prog[idx - 1].k = "FuncDef"
    /\ \E b \in Range(ChainOf(idx - 1)) : blocks[b].kind = "ConditionBlock"
    /\ \E p \in 1..Len(gen.code) : gen.code[p].op = "cbranch"
    /\ Len(gen.code) = Len(node_text) + Len(Flatten([i \in 1..(idx - 1) |->
                           IF prog[i].k = "FuncDef" THEN ChainCode(i) ELSE <<>>]))

----------------------------------------------------------------------------
(* The optimizer's analyses and rewrites, on the CFGs it is handed.        *)

\* C22: when DataFlow.visit_Program has ended, the reaching-definitions and
\* live-variable iterations have stopped on facts that solve the dataflow
\* equations: the steps that build GEN/KILL and USE/DEF and the two steps
\* that iterate IN and OUT have all returned.
C22_FactsAreAFixedPoint ==
    pc = "opt_done" /\ FuncDefs # {} =>
        /\ Ran("buildRD_blocks") /\ Ran("computeRD_gen_kill") /\ Ran("computeRD_in_out")
        /\ Ran("buildLV_blocks") /\ Ran("computeLV_use_def") /\ Ran("computeLV_in_out")

\* The label markers the builder puts at the head of a block.
LabelOps ==
    {"entry:", "exit:", "if:", "if_then:", "if_else:", "if_end:", "for_test:", "for_body:",
     "for_increment:", "for_final_increment:", "for_end:", "while_test:", "assert:",
     "assert_true:", "assert_false:"}

\* The instructions of block b after its label marker.
Body(b) == SelectSeq(blocks[b].instructions, LAMBDA ins : ins.op \notin LabelOps)

\* Block b holds an unconditional jump and nothing else, and has a predecessor
\* L1 that jumps to it.
JumpOnly(b) ==
    /\ Len(Body(b)) = 1 /\ Body(b)[1].op = "jump"
    /\ \E L1 \in Range(blocks[b].predecessors) :
           /\ blocks[L1].kind = "BasicBlock" /\ blocks[L1].branch = b
           /\ Len(blocks[L1].instructions) >= 1 /\ LastInstr(L1).op = "jump"

\* C23: when DataFlow.visit_Program has ended, no function's CFG holds a block
\* whose only instruction is an unconditional jump and that a predecessor
\* jumps to: jump threading has removed it.
C23_JumpOnlyBlocksAreThreaded ==
    pc = "opt_done" => \A i \in Built : \A b \in BlocksOf(i) : ~JumpOnly(b)

\* The control successors of block b.
ControlSuccs(b) ==
    (IF blocks[b].kind = "BasicBlock" THEN {blocks[b].branch}
     ELSE {blocks[b].taken, blocks[b].fall_through}) \ {None}

\* B is a loop header: the test block of a loop, which the loop's body or
\* increment block comes back to.
LoopHeader(B) == blocks[B].label \in {"%while_test", "%for_test"}

\* merge_blocks is to merge B into A.
Mergeable(A, B) ==
    /\ A # B
    /\ ControlSuccs(A) = {B}
    /\ Range(blocks[B].predecessors) = {A}
    /\ ~LoopHeader(B)

\* C24: when DataFlow.visit_Program has ended, no function's CFG holds a block
\* A whose sole control successor is a block B whose sole predecessor is A, B
\* being no loop header: merge_blocks has merged every such pair.
C24_MergeablePairsAreMerged ==
    pc = "opt_done" => \A i \in Built : \A A, B \in BlocksOf(i) : ~Mergeable(A, B)

----------------------------------------------------------------------------
(* The CFGs of a program's functions.                                      *)

\* C25: the CFGs of distinct functions share no block: no block is led to,
\* through next_block, branch, taken, fall_through or predecessors links,
\* from the first blocks of two functions.
C25_FunctionsShareNoBlock ==
    \A i, j \in Built : i # j => BlocksOf(i) \cap BlocksOf(j) = {}

\* Two functions have been built one after the other, the first of them with
\* a conditional or a loop.
C25_Witness ==
    \E i, j \in Built :
        /\ i < j
        /\ Cardinality(BlocksOf(i)) >= 4
        /\ Cardinality(BlocksOf(j)) >= 2
        /\ gen.cur = None

\* The type token of the formatted instruction, qualifiers included.
FormatType ==
    Qualified(FormatTy, SubSeq(Split(fmt.t.name, "_"), 3, Len(Split(fmt.t.name, "_"))))

\* The instructions that name no destination, and those whose last operand
\* is their destination: arithmetic, comparison, logical, load, literal,
\* alloc and call.
NoDestinationOps == {<<"s", "t", "o", "r", "e">>, <<"p", "a", "r", "a", "m">>}
DestinationOps == {<<"a", "d", "d">>, <<"l", "t">>, <<"a", "n", "d">>, <<"n", "o", "t">>, <<"l", "o", "a", "d">>, <<"l", "i", "t", "e", "r", "a", "l">>, <<"a", "l", "l", "o", "c">>, <<"c", "a", "l", "l">>}

\* C26: format_instruction renders a store or a param as the opcode, the type
\* and all the operands in tuple order, a space after each, with no '='; it
\* renders an arithmetic, comparison, logical, load, literal, alloc or call
\* instruction as its last operand, ' = ', the opcode, the type and the other
\* operands in tuple order.
C26_DestinationByOpcodeClass ==
    (fmt.pc = "returned" /\ TupleLen(fmt.t) > 1) =>
        LET a == fmt.t.args
        IN  /\ FormatOp \in NoDestinationOps =>
                /\ fmt.status = "ok"
                /\ fmt.out = <<" ", " ">> \o Join(<<" ">>, <<FormatOp, FormatType>> \o a) \o <<" ">>
                /\ \A k \in 1..Len(fmt.out) : fmt.out[k] # "="
            /\ FormatOp \in DestinationOps =>
                /\ fmt.status = "ok"
                /\ fmt.out = <<" ", " ">>
                               \o Join(<<" ">>, <<a[Len(a)], <<"=">>, FormatOp, FormatType>>
                                                    \o SubSeq(a, 1, Len(a) - 1))
                               \o <<" ">>

\* An addition has been rendered: '  %3 = add int %1 %2 '.
C26_Witness ==
    /\ fmt.pc = "returned"
    /\ fmt.t = Tuple(<<"a", "d", "d", "_", "i", "n", "t">>, <<<<"%", "1">>, <<"%", "2">>, <<"%", "3">>>>, <<>>)
    /\ fmt.out = <<" ", " ", "%", "3", " ", "=", " ", "a", "d", "d", " ", "i", "n", "t", " ", "%", "1", " ", "%", "2", " ">>

\* C27: in every built CFG the predecessor lists are the inverse of the
\* control edges: A is in B.predecessors if and only if B is A.branch, A.taken
\* or A.fall_through.
C27_PredecessorsInvertControlEdges ==
    \A i \in Built : \A A, B \in BlocksOf(i) :
        A \in Range(blocks[B].predecessors) <=> B \in ControlSuccs(A)

\* The blocks the blocks of s lead to through control edges.
RECURSIVE ControlClosure(_)
ControlClosure(s) ==
    LET t == s \cup UNION {ControlSuccs(b) : b \in s}
    IN  IF t = s THEN s ELSE ControlClosure(t)

\* Block b of function i ends with a jump to %exit, or is the block the
\* function's body ends in: the one before the exit block on the chain.
LeadsToExit(i, b) ==
    \/ /\ Len(blocks[b].instructions) >= 1
       /\ LastInstr(b) = Instr("jump", <<"%exit">>)
    \/ blocks[b].next_block = ExitOf(i)

\* C28: in every built CFG the exit block is reached from the function's
\* first block through control edges only, and every block that ends with a
\* jump to %exit or that the function's body ends in has a control edge to
\* the exit block.
C28_ExitIsReachedByControlEdges ==
    \A i \in Built :
        /\ ExitOf(i) \in ControlClosure({cfg[i]})
        /\ \A b \in BlocksOf(i) : LeadsToExit(i, b) => ExitOf(i) \in ControlSuccs(b)

\* Block t is labelled L and starts with its own label marker.
IsTarget(t, L) ==
    /\ t # None
    /\ blocks[t].label = L
    /\ Len(blocks[t].instructions) >= 1
    /\ "%" \o blocks[t].instructions[1].op = blocks[t].label \o ":"

\* C29: in every built CFG a block ending in 'jump L' has its branch set to
\* the block labelled L, and a ConditionBlock ending in 'cbranch c T F' has
\* taken labelled T and fall_through labelled F, each target starting with
\* its own label marker.
C29_LabelsAgreeWithEdges ==
    \A i \in Built : \A b \in BlocksOf(i) :
        Len(blocks[b].instructions) >= 1 =>
            /\ LastInstr(b).op = "jump" => IsTarget(blocks[b].branch, LastInstr(b).args[1])
            /\ LastInstr(b).op = "cbranch" =>
                  /\ IsTarget(blocks[b].taken, LastInstr(b).args[2])
                  /\ IsTarget(blocks[b].fall_through, LastInstr(b).args[3])

\* The labels of the blocks on the chain of function i.
ChainLabels(i) == [j \in 1..Len(ChainOf(i)) |-> blocks[ChainOf(i)[j]].label]

\* C30: within one function no two blocks on the emission-order chain carry
\* the same label.
C30_LabelsIdentifyBlocks ==
    \A i \in Built :
        \A j, k \in 1..Len(ChainLabels(i)) : ChainLabels(i)[j] = ChainLabels(i)[k] => j = k

====
